---- MODULE Spec2Model ----
(***************************************************************************)
(* UserService of stustapay (stustapay/core/service/user.py): users,       *)
(* privileges, ledger accounts and login sessions kept in a relational     *)
(* store, every public operation running in one database transaction.      *)
(*                                                                         *)
(* Each handler is written as a step function over its position (pc): one  *)
(* step per SQL statement that another transaction can observe or          *)
(* disturb.  Spec runs every call to completion in one action (calls one   *)
(* after the other); SpecConc interleaves the statements of two calls      *)
(* under read-committed isolation with row locks on usr.                   *)
(***************************************************************************)
EXTENDS Integers, Sequences, FiniteSets, Bags, TLC

\* ------------------------------------------------------------ bounds
MaxUsers == 2
MaxAccounts == 2
MaxSessions == 2
MaxSalt == 1
MaxCalls == 4

\* ------------------------------------------------------------ values
\* SQL NULL / Python None for an id column.
NULL == 0
\* None for an Optional[str].
NoStr == "None"
\* None for the password column (no digest stored).
NoHash == <<>>
\* Undecodable / absent token.
NoToken == <<>>

Privilege == {"admin", "cashier", "finanzorga"}
AccountType_internal == "internal"

Names == {"alice", "bob"}
Passwords == {"pw1"}
\* user_tag: the pre-existing table uid -> id; the service only reads it.
user_tag == {[id |-> 1, uid |-> "uidA"]}
UnknownUid == "uidZ"
TagUids == {t.uid : t \in user_tag} \cup {UnknownUid}
TagIds == {t.id : t \in user_tag}

UserIds == 1..MaxUsers
AccountIds == 1..MaxAccounts
SessionIds == 1..MaxSessions

VARIABLES
  usr,                 \* table usr: set of rows
  usr_privs,           \* table usr_privs: bag of rows [usr, priv]
  account,             \* table account: set of rows
  usr_session,         \* table usr_session: set of rows [id, usr]
  usr_id_seq,          \* serial of usr.id (last value handed out)
  account_id_seq,      \* serial of account.id
  usr_session_id_seq,  \* serial of usr_session.id
  last,                \* the call that completed last: what it was and what it returned
  ncalls,              \* calls made so far
  proc                 \* per connection: the call in flight, its position and its open transaction

vars == <<usr, usr_privs, account, usr_session, usr_id_seq, account_id_seq,
          usr_session_id_seq, last, ncalls, proc>>
tables == <<usr, usr_privs, account, usr_session>>

\* ------------------------------------------------------------ the store
\* The committed store as one value.
DB == [usr |-> usr, usr_privs |-> usr_privs, account |-> account,
       usr_session |-> usr_session, usr_id_seq |-> usr_id_seq,
       account_id_seq |-> account_id_seq, usr_session_id_seq |-> usr_session_id_seq]

NoUser == [id |-> NULL, name |-> NoStr, description |-> NoStr, privileges |-> EmptyBag,
           user_tag_id |-> NULL, transport_account_id |-> NULL, cashier_account_id |-> NULL]

\* The privileges column of view usr_with_privileges: the usr_privs rows of user u,
\* aggregated (a row stored twice shows twice).
PrivsOf(D, u) ==
  LET held == {p \in Privilege : CopiesIn([usr |-> u, priv |-> p], D.usr_privs) > 0}
  IN [p \in held |-> CopiesIn([usr |-> u, priv |-> p], D.usr_privs)]

\* User.parse_obj(row) of a row of usr_with_privileges: the User schema has no password.
Hydrate(D, row) ==
  [id |-> row.id, name |-> row.name, description |-> row.description,
   privileges |-> PrivsOf(D, row.id), user_tag_id |-> row.user_tag_id,
   transport_account_id |-> row.transport_account_id,
   cashier_account_id |-> row.cashier_account_id]

\* The bag of usr_privs rows one loop "for privilege in privileges: insert" writes.
PrivRows(u, privileges) ==
  [r \in {[usr |-> u, priv |-> p] : p \in DOMAIN privileges} |-> privileges[r.priv]]

\* usr_privs without the rows of user u ("delete from usr_privs where usr = $1").
WithoutPrivsOf(B, u) ==
  [r \in {x \in DOMAIN B : x.usr # u} |-> B[r]]

\* One write of a transaction applied to a store.
ApplyWrite(D, w) ==
  CASE w.t = "insert_usr" -> [D EXCEPT !.usr = @ \cup {w.row}]
    [] w.t = "update_usr" ->
         [D EXCEPT !.usr = {IF r.id = w.id
                            THEN [r EXCEPT !.name = w.user.name,
                                           !.description = w.user.description,
                                           !.user_tag_id = w.user.user_tag_id,
                                           !.transport_account_id = w.user.transport_account_id,
                                           !.cashier_account_id = w.user.cashier_account_id]
                            ELSE r : r \in @}]
    [] w.t = "set_cashier_account_id" ->
         [D EXCEPT !.usr = {IF r.id = w.id THEN [r EXCEPT !.cashier_account_id = w.account_id]
                            ELSE r : r \in @}]
    [] w.t = "set_transport_account_id" ->
         [D EXCEPT !.usr = {IF r.id = w.id THEN [r EXCEPT !.transport_account_id = w.account_id]
                            ELSE r : r \in @}]
    [] w.t = "delete_usr" -> [D EXCEPT !.usr = {r \in @ : r.id # w.id}]
    [] w.t = "delete_usr_privs" -> [D EXCEPT !.usr_privs = WithoutPrivsOf(@, w.id)]
    [] w.t = "insert_usr_privs" -> [D EXCEPT !.usr_privs = @ (+) PrivRows(w.id, w.privileges)]
    [] w.t = "insert_account" -> [D EXCEPT !.account = @ \cup {w.row}]
    [] w.t = "insert_usr_session" -> [D EXCEPT !.usr_session = @ \cup {w.row}]
    [] w.t = "delete_usr_session" ->
         [D EXCEPT !.usr_session = {s \in @ : ~(s.usr = w.usr /\ s.id = w.id)}]

RECURSIVE ApplyAll(_, _)
ApplyAll(D, ws) ==
  IF ws = <<>> THEN D ELSE ApplyAll(ApplyWrite(D, Head(ws)), Tail(ws))

\* nextval: the serials advance outside the transaction (a rollback leaves the gap).
Nextval(D, nv) ==
  [D EXCEPT !.usr_id_seq = @ + nv.usr, !.account_id_seq = @ + nv.account,
            !.usr_session_id_seq = @ + nv.usr_session]

NoNextval == [usr |-> 0, account |-> 0, usr_session |-> 0]

\* ------------------------------------------------------------ collaborators
\* pwd_context.hash: a salted digest; the salt is drawn by the hasher.
_hash_password(password, salt) == <<salt, password>>

\* pwd_context.verify: no digest stored (None) verifies nothing.
_check_password(password, hashed_password) ==
  /\ hashed_password # NoHash
  /\ hashed_password[2] = password

\* AuthService.create_user_access_token(UserTokenMetadata(user_id, session_id)).
create_user_access_token(user_id, session_id) == <<"jwt", user_id, session_id>>

\* AuthService.decode_user_jwt_payload: the payload, or None (here a payload with user_id NULL).
decode_user_jwt_payload(token) ==
  IF Len(token) = 3 /\ token[1] = "jwt"
  THEN [user_id |-> token[2], session_id |-> token[3]]
  ELSE [user_id |-> NULL, session_id |-> NULL]

\* requires_user_privileges(privileges): the principal is authenticated and, when
\* privileges are required, holds at least one of them.
requires_user_privileges(current_user, privileges) ==
  /\ current_user # NoUser
  /\ \/ privileges = {}
     \/ \E p \in privileges : BagIn(p, current_user.privileges)

\* requires_terminal(privileges): as above, from a terminal context.
requires_terminal(current_user, terminal, privileges) ==
  /\ terminal
  /\ requires_user_privileges(current_user, privileges)

\* ------------------------------------------------------------ frames
NoArgs == [user |-> NoUser, name |-> NoStr, user_tag |-> NoStr, password |-> "",
           user_id |-> NULL, account_id |-> NULL, username |-> NoStr, token |-> NoToken]

\* A call: the public operation (api), the handler it is in (op, pc), the handlers it
\* still has to call (todo), its principal, arguments and locals, and its outcome.
NewFrame(api, a, current_user, terminal) ==
  [api |-> api, op |-> api, pc |-> "guard", todo |-> <<>>,
   current_user |-> current_user, terminal |-> terminal, a |-> a,
   user |-> NoUser, status |-> "run", ret |-> NoUser, ok |-> FALSE, token |-> NoToken,
   users |-> {},
   checked |-> FALSE, wrote |-> {}, commit |-> FALSE]

Res(f, w, nv) == [f |-> f, w |-> w, nv |-> nv]
Goto(f, pc) == [f EXCEPT !.pc = pc]
Raise(f, exc) == [f EXCEPT !.status = exc, !.pc = "done"]

\* create_cashier / create_finanzorga calling their handlers without conn=conn.
PassesConn_own(api) == FALSE

\* Whether a composed operation hands its connection to the handlers it calls
\* ("conn=conn"): they then run in its transaction instead of one of their own.
PassesConn(api) == TRUE

\* return user: the handler's caller goes on with the next handler it calls, on user.id
\* ("user = await self.promote_to_cashier(..., conn=conn, user_id=user.id)").
Return(f, user) ==
  IF f.todo = <<>>
  THEN [f EXCEPT !.status = "ok", !.pc = "done", !.ret = user]
  ELSE [f EXCEPT !.op = Head(f.todo), !.todo = Tail(f.todo), !.pc = "guard",
                 !.a.user_id = user.id, !.user = NoUser,
                 !.commit = ~PassesConn(f.api)]

ReturnBool(f, b) == [f EXCEPT !.status = "ok", !.pc = "done", !.ok = b]

\* fetchrow of a query matching several rows returns one of them.
FetchRow(rows, pick) ==
  IF \E r \in rows : r.id = pick THEN CHOOSE r \in rows : r.id = pick
  ELSE CHOOSE r \in rows : TRUE

\* The decorators with get_user under requires_user_privileges() (no privilege named).
Decorator_get_user_any_user(op) ==
  CASE op = "create_user_no_auth" -> [kind |-> "none", privileges |-> {}]
    [] op = "create_user" -> [kind |-> "user", privileges |-> {"admin"}]
    [] op = "create_cashier" -> [kind |-> "terminal", privileges |-> {"admin"}]
    [] op = "create_finanzorga" -> [kind |-> "terminal", privileges |-> {"admin"}]
    [] op = "create_user_with_tag" -> [kind |-> "user", privileges |-> {"admin"}]
    [] op = "promote_to_cashier" -> [kind |-> "user", privileges |-> {"admin"}]
    [] op = "promote_to_finanzorga" -> [kind |-> "user", privileges |-> {"admin"}]
    [] op = "list_users" -> [kind |-> "user", privileges |-> {"admin"}]
    [] op = "get_user" -> [kind |-> "user", privileges |-> {}]
    [] op = "update_user" -> [kind |-> "user", privileges |-> {"admin"}]
    [] op = "delete_user" -> [kind |-> "user", privileges |-> {"admin"}]
    [] op = "link_user_to_cashier_account" -> [kind |-> "user", privileges |-> {"admin"}]
    [] op = "link_user_to_transport_account" -> [kind |-> "user", privileges |-> {"admin"}]
    [] op = "login_user" -> [kind |-> "none", privileges |-> {}]
    [] op = "logout_user" -> [kind |-> "user", privileges |-> {}]

\* The decorators with delete_user under with_db_transaction alone.
Decorator_delete_user_bare(op) ==
  CASE op = "create_user_no_auth" -> [kind |-> "none", privileges |-> {}]
    [] op = "create_user" -> [kind |-> "user", privileges |-> {"admin"}]
    [] op = "create_cashier" -> [kind |-> "terminal", privileges |-> {"admin"}]
    [] op = "create_finanzorga" -> [kind |-> "terminal", privileges |-> {"admin"}]
    [] op = "create_user_with_tag" -> [kind |-> "user", privileges |-> {"admin"}]
    [] op = "promote_to_cashier" -> [kind |-> "user", privileges |-> {"admin"}]
    [] op = "promote_to_finanzorga" -> [kind |-> "user", privileges |-> {"admin"}]
    [] op = "list_users" -> [kind |-> "user", privileges |-> {"admin"}]
    [] op = "get_user" -> [kind |-> "user", privileges |-> {"admin"}]
    [] op = "update_user" -> [kind |-> "user", privileges |-> {"admin"}]
    [] op = "delete_user" -> [kind |-> "none", privileges |-> {}]
    [] op = "link_user_to_cashier_account" -> [kind |-> "user", privileges |-> {"admin"}]
    [] op = "link_user_to_transport_account" -> [kind |-> "user", privileges |-> {"admin"}]
    [] op = "login_user" -> [kind |-> "none", privileges |-> {}]
    [] op = "logout_user" -> [kind |-> "user", privileges |-> {}]

\* ------------------------------------------------------------ handlers
\* The guard each handler is decorated with (besides with_db_transaction).
Decorator(op) ==
  CASE op = "create_user_no_auth" -> [kind |-> "none", privileges |-> {}]
    [] op = "create_user" -> [kind |-> "user", privileges |-> {"admin"}]
    [] op = "create_cashier" -> [kind |-> "terminal", privileges |-> {"admin"}]
    [] op = "create_finanzorga" -> [kind |-> "terminal", privileges |-> {"admin"}]
    [] op = "create_user_with_tag" -> [kind |-> "user", privileges |-> {"admin"}]
    [] op = "promote_to_cashier" -> [kind |-> "user", privileges |-> {"admin"}]
    [] op = "promote_to_finanzorga" -> [kind |-> "user", privileges |-> {"admin"}]
    [] op = "list_users" -> [kind |-> "user", privileges |-> {"admin"}]
    [] op = "get_user" -> [kind |-> "user", privileges |-> {"admin"}]
    [] op = "update_user" -> [kind |-> "user", privileges |-> {"admin"}]
    [] op = "delete_user" -> [kind |-> "user", privileges |-> {"admin"}]
    [] op = "link_user_to_cashier_account" -> [kind |-> "user", privileges |-> {"admin"}]
    [] op = "link_user_to_transport_account" -> [kind |-> "user", privileges |-> {"admin"}]
    [] op = "login_user" -> [kind |-> "none", privileges |-> {}]
    [] op = "logout_user" -> [kind |-> "user", privileges |-> {}]

\* create_finanzorga without its promote_to_cashier call.
Calls_finanzorga_only(op) ==
  CASE op = "create_cashier" -> <<"create_user_with_tag", "promote_to_cashier">>
    [] op = "create_finanzorga" ->
         <<"create_user_with_tag", "promote_to_finanzorga">>
    [] OTHER -> <<>>

\* The handlers a composed operation calls, in order, each on the same connection.
Calls(op) ==
  CASE op = "create_cashier" -> <<"create_user_with_tag", "promote_to_cashier">>
    [] op = "create_finanzorga" ->
         <<"create_user_with_tag", "promote_to_cashier", "promote_to_finanzorga">>
    [] OTHER -> <<>>

\* The first statement of a handler's body.
Entry(op) ==
  CASE op \in {"create_user_no_auth", "create_user"} -> "_create_user"
    [] op = "create_user_with_tag" -> "select_user_tag"
    [] op \in {"promote_to_cashier", "promote_to_finanzorga", "get_user"} -> "_get_user"
    [] op = "list_users" -> "select_usr"
    [] op = "update_user" -> "update_usr"
    [] op = "delete_user" -> "delete_usr"
    [] op \in {"link_user_to_cashier_account", "link_user_to_transport_account"} -> "update_usr"
    [] op = "login_user" -> "select_usr"
    [] op = "logout_user" -> "delete_usr_session"
    [] OTHER -> "call"

\* The decorators of a handler, run before its body: PermissionDenied, or into the body.
Guard(f) ==
  LET d == Decorator(f.op)
      pass == CASE d.kind = "none" -> TRUE
                [] d.kind = "user" -> requires_user_privileges(f.current_user, d.privileges)
                [] d.kind = "terminal" ->
                     requires_terminal(f.current_user, f.terminal, d.privileges)
      g == [f EXCEPT !.checked = @ \/ (d.kind # "none" /\ "admin" \in d.privileges)]
  IN IF ~pass THEN Raise(f, "PermissionDenied")
     ELSE IF Calls(f.op) # <<>>
     THEN [g EXCEPT !.op = Head(Calls(f.op)), !.todo = Tail(Calls(f.op)), !.pc = "guard"]
     ELSE IF f.op = "update_user" THEN [g EXCEPT !.pc = Entry(f.op), !.user = f.a.user]
     ELSE Goto(g, Entry(f.op))

\* _create_user: insert the usr row, one usr_privs row per privilege, re-read the view.
\* The rows are the transaction's own until it commits, so this is one step.
_create_user(f, v, ch, new_user, password) ==
  LET hashed_password == IF password # "" THEN _hash_password(password, ch.salt) ELSE NoHash
      user_id == v.usr_id_seq + 1
      row == [id |-> user_id, name |-> new_user.name, description |-> new_user.description,
              password |-> hashed_password, user_tag_id |-> new_user.user_tag_id,
              transport_account_id |-> new_user.transport_account_id,
              cashier_account_id |-> new_user.cashier_account_id]
      w == << [t |-> "insert_usr", row |-> row],
              [t |-> "insert_usr_privs", id |-> user_id, privileges |-> new_user.privileges] >>
  IN Res(Return([f EXCEPT !.wrote = @ \cup {<<"usr", user_id>>}],
                Hydrate(ApplyAll(v, w), row)),
         w, [NoNextval EXCEPT !.usr = 1])

create_user_no_auth(f, v, ch) == _create_user(f, v, ch, f.a.user, f.a.password)

create_user(f, v, ch) == _create_user(f, v, ch, f.a.user, f.a.password)

\* create_user_with_tag without "if existing_user is not None: return ...".
create_user_with_tag_no_dedup(f, v, ch) ==
  CASE f.pc = "select_user_tag" ->
         LET tags == {t \in user_tag : t.uid = f.a.user_tag}
             user_tag_id == IF tags = {} THEN NULL ELSE (CHOOSE t \in tags : TRUE).id
         IN IF user_tag_id = NULL THEN Res(Raise(f, "NotFound"), <<>>, NoNextval)
            ELSE Res([f EXCEPT !.pc = "_create_user",
                               !.user = [NoUser EXCEPT !.name = f.a.name,
                                                       !.user_tag_id = user_tag_id]],
                     <<>>, NoNextval)
    [] f.pc = "_create_user" -> _create_user(f, v, ch, f.user, "")

\* create_user_with_tag looking the existing user up by tag and name.
create_user_with_tag_by_name(f, v, ch) ==
  CASE f.pc = "select_user_tag" ->
         LET tags == {t \in user_tag : t.uid = f.a.user_tag}
             user_tag_id == IF tags = {} THEN NULL ELSE (CHOOSE t \in tags : TRUE).id
             existing == {r \in v.usr : r.user_tag_id = user_tag_id /\ r.name = f.a.name}
         IN IF user_tag_id = NULL THEN Res(Raise(f, "NotFound"), <<>>, NoNextval)
            ELSE IF existing # {}
            THEN \* ignore the name provided in new_user
                 Res(Return(f, Hydrate(v, FetchRow(existing, ch.pick))), <<>>, NoNextval)
            ELSE Res([f EXCEPT !.pc = "_create_user",
                               !.user = [NoUser EXCEPT !.name = f.a.name,
                                                       !.user_tag_id = user_tag_id]],
                     <<>>, NoNextval)
    [] f.pc = "_create_user" -> _create_user(f, v, ch, f.user, "")

create_user_with_tag(f, v, ch) ==
  CASE f.pc = "select_user_tag" ->
         LET tags == {t \in user_tag : t.uid = f.a.user_tag}
             user_tag_id == IF tags = {} THEN NULL ELSE (CHOOSE t \in tags : TRUE).id
             existing == {r \in v.usr : r.user_tag_id = user_tag_id}
         IN IF user_tag_id = NULL THEN Res(Raise(f, "NotFound"), <<>>, NoNextval)
            ELSE IF existing # {}
            THEN \* ignore the name provided in new_user
                 Res(Return(f, Hydrate(v, FetchRow(existing, ch.pick))), <<>>, NoNextval)
            ELSE Res([f EXCEPT !.pc = "_create_user",
                               !.user = [NoUser EXCEPT !.name = f.a.name,
                                                       !.user_tag_id = user_tag_id]],
                     <<>>, NoNextval)
    [] f.pc = "_create_user" -> _create_user(f, v, ch, f.user, "")

\* _get_user: the hydrated user, or NoUser where the code raises NotFoundException.
_get_user(v, user_id) ==
  LET rows == {r \in v.usr : r.id = user_id}
  IN IF rows = {} THEN NoUser ELSE Hydrate(v, CHOOSE r \in rows : TRUE)

\* _update_user without "delete from usr_privs where usr = $1".
_update_user_merging(f, v, user_id, user) ==
  CASE f.pc = "update_usr" ->
         IF {r \in v.usr : r.id = user_id} = {}
         THEN Res(Raise(f, "NotFound"), <<>>, NoNextval)
         ELSE Res(Goto(f, "update_usr_privs"),
                  << [t |-> "update_usr", id |-> user_id, user |-> user] >>, NoNextval)
    [] f.pc = "update_usr_privs" ->
         LET w == << [t |-> "insert_usr_privs", id |-> user_id,
                      privileges |-> user.privileges] >>
             got == _get_user(ApplyAll(v, w), user_id)
         IN IF got = NoUser THEN Res(Raise(f, "NotFound"), w, NoNextval)
            ELSE Res(Return(f, got), w, NoNextval)

\* _update_user: the update of the usr row, then the replacement of its usr_privs rows
\* and the re-read; once the row is updated it is locked, so the rest is one step.
_update_user(f, v, user_id, user) ==
  CASE f.pc = "update_usr" ->
         IF {r \in v.usr : r.id = user_id} = {}
         THEN Res(Raise(f, "NotFound"), <<>>, NoNextval)
         ELSE Res(Goto(f, "update_usr_privs"),
                  << [t |-> "update_usr", id |-> user_id, user |-> user] >>, NoNextval)
    [] f.pc = "update_usr_privs" ->
         LET w == << [t |-> "delete_usr_privs", id |-> user_id],
                     [t |-> "insert_usr_privs", id |-> user_id,
                      privileges |-> user.privileges] >>
             got == _get_user(ApplyAll(v, w), user_id)
         IN IF got = NoUser THEN Res(Raise(f, "NotFound"), w, NoNextval)
            ELSE Res(Return(f, got), w, NoNextval)

\* promote_to_cashier dropping the id of the account it inserts.
promote_to_cashier_no_account(f, v, ch) ==
  CASE f.pc = "_get_user" ->
         LET user == _get_user(v, f.a.user_id)
         IN IF user = NoUser THEN Res(Raise(f, "NotFound"), <<>>, NoNextval)
            ELSE IF BagIn("cashier", user.privileges) THEN Res(Return(f, user), <<>>, NoNextval)
            ELSE Res([f EXCEPT !.pc = "insert_account", !.user = user], <<>>, NoNextval)
    [] f.pc = "insert_account" ->
         \* create cashier account
         LET id == v.account_id_seq + 1
             row == [id |-> id, type |-> AccountType_internal,
                     name |-> <<"Cashier account for", f.user.name>>]
         IN Res([f EXCEPT !.pc = "update_usr",
                          !.user.privileges = @ (+) SetToBag({"cashier"}),
                          !.wrote = @ \cup {<<"account", id>>}],
                << [t |-> "insert_account", row |-> row] >>,
                [NoNextval EXCEPT !.account = 1])
    [] OTHER -> _update_user(f, v, f.user.id, f.user)

\* promote_to_cashier without "if Privilege.cashier in user.privileges: return user".
promote_to_cashier_unchecked(f, v, ch) ==
  CASE f.pc = "_get_user" ->
         LET user == _get_user(v, f.a.user_id)
         IN IF user = NoUser THEN Res(Raise(f, "NotFound"), <<>>, NoNextval)
            ELSE Res([f EXCEPT !.pc = "insert_account", !.user = user], <<>>, NoNextval)
    [] f.pc = "insert_account" ->
         LET id == v.account_id_seq + 1
             row == [id |-> id, type |-> AccountType_internal,
                     name |-> <<"Cashier account for", f.user.name>>]
         IN Res([f EXCEPT !.pc = "update_usr",
                          !.user.cashier_account_id = id,
                          !.user.privileges = @ (+) SetToBag({"cashier"}),
                          !.wrote = @ \cup {<<"account", id>>}],
                << [t |-> "insert_account", row |-> row] >>,
                [NoNextval EXCEPT !.account = 1])
    [] OTHER -> _update_user(f, v, f.user.id, f.user)

\* promote_to_cashier without "user.privileges.append(Privilege.cashier)".
promote_to_cashier_not_appending(f, v, ch) ==
  CASE f.pc = "_get_user" ->
         LET user == _get_user(v, f.a.user_id)
         IN IF user = NoUser THEN Res(Raise(f, "NotFound"), <<>>, NoNextval)
            ELSE IF BagIn("cashier", user.privileges) THEN Res(Return(f, user), <<>>, NoNextval)
            ELSE Res([f EXCEPT !.pc = "insert_account", !.user = user], <<>>, NoNextval)
    [] f.pc = "insert_account" ->
         \* create cashier account
         LET id == v.account_id_seq + 1
             row == [id |-> id, type |-> AccountType_internal,
                     name |-> <<"Cashier account for", f.user.name>>]
         IN Res([f EXCEPT !.pc = "update_usr",
                          !.user.cashier_account_id = id,
                          !.wrote = @ \cup {<<"account", id>>}],
                << [t |-> "insert_account", row |-> row] >>,
                [NoNextval EXCEPT !.account = 1])
    [] OTHER -> _update_user(f, v, f.user.id, f.user)

\* promote_to_cashier numbering its account after the accounts it sees, not by the serial.
promote_to_cashier_max_id(f, v, ch) ==
  CASE f.pc = "_get_user" ->
         LET user == _get_user(v, f.a.user_id)
         IN IF user = NoUser THEN Res(Raise(f, "NotFound"), <<>>, NoNextval)
            ELSE IF BagIn("cashier", user.privileges) THEN Res(Return(f, user), <<>>, NoNextval)
            ELSE Res([f EXCEPT !.pc = "insert_account", !.user = user], <<>>, NoNextval)
    [] f.pc = "insert_account" ->
         \* create cashier account
         LET id == 1 + Cardinality({a.id : a \in v.account})
             row == [id |-> id, type |-> AccountType_internal,
                     name |-> <<"Cashier account for", f.user.name>>]
         IN Res([f EXCEPT !.pc = "update_usr",
                          !.user.cashier_account_id = id,
                          !.user.privileges = @ (+) SetToBag({"cashier"}),
                          !.wrote = @ \cup {<<"account", id>>}],
                << [t |-> "insert_account", row |-> row] >>,
                [NoNextval EXCEPT !.account = 1])
    [] OTHER -> _update_user(f, v, f.user.id, f.user)

\* promote_to_cashier building the user it stores from id, name and privileges only.
promote_to_cashier_fresh_user(f, v, ch) ==
  CASE f.pc = "_get_user" ->
         LET user == _get_user(v, f.a.user_id)
         IN IF user = NoUser THEN Res(Raise(f, "NotFound"), <<>>, NoNextval)
            ELSE IF BagIn("cashier", user.privileges) THEN Res(Return(f, user), <<>>, NoNextval)
            ELSE Res([f EXCEPT !.pc = "insert_account",
                               !.user = [NoUser EXCEPT !.id = user.id, !.name = user.name,
                                                       !.privileges = user.privileges]],
                     <<>>, NoNextval)
    [] f.pc = "insert_account" ->
         \* create cashier account
         LET id == v.account_id_seq + 1
             row == [id |-> id, type |-> AccountType_internal,
                     name |-> <<"Cashier account for", f.user.name>>]
         IN Res([f EXCEPT !.pc = "update_usr",
                          !.user.cashier_account_id = id,
                          !.user.privileges = @ (+) SetToBag({"cashier"}),
                          !.wrote = @ \cup {<<"account", id>>}],
                << [t |-> "insert_account", row |-> row] >>,
                [NoNextval EXCEPT !.account = 1])
    [] OTHER -> _update_user(f, v, f.user.id, f.user)

promote_to_cashier(f, v, ch) ==
  CASE f.pc = "_get_user" ->
         LET user == _get_user(v, f.a.user_id)
         IN IF user = NoUser THEN Res(Raise(f, "NotFound"), <<>>, NoNextval)
            ELSE IF BagIn("cashier", user.privileges) THEN Res(Return(f, user), <<>>, NoNextval)
            ELSE Res([f EXCEPT !.pc = "insert_account", !.user = user], <<>>, NoNextval)
    [] f.pc = "insert_account" ->
         \* create cashier account
         LET id == v.account_id_seq + 1
             row == [id |-> id, type |-> AccountType_internal,
                     name |-> <<"Cashier account for", f.user.name>>]
         IN Res([f EXCEPT !.pc = "update_usr",
                          !.user.cashier_account_id = id,
                          !.user.privileges = @ (+) SetToBag({"cashier"}),
                          !.wrote = @ \cup {<<"account", id>>}],
                << [t |-> "insert_account", row |-> row] >>,
                [NoNextval EXCEPT !.account = 1])
    [] OTHER -> _update_user(f, v, f.user.id, f.user)

\* promote_to_finanzorga with "user.privileges = [Privilege.finanzorga]" for the append.
promote_to_finanzorga_replacing(f, v, ch) ==
  CASE f.pc = "_get_user" ->
         LET user == _get_user(v, f.a.user_id)
         IN IF user = NoUser THEN Res(Raise(f, "NotFound"), <<>>, NoNextval)
            ELSE IF BagIn("finanzorga", user.privileges)
            THEN Res(Return(f, user), <<>>, NoNextval)
            ELSE Res([f EXCEPT !.pc = "insert_account", !.user = user], <<>>, NoNextval)
    [] f.pc = "insert_account" ->
         \* create backpack account
         LET id == v.account_id_seq + 1
             row == [id |-> id, type |-> AccountType_internal,
                     name |-> <<"Transport account for finanzorga", f.user.name>>]
         IN Res([f EXCEPT !.pc = "update_usr",
                          !.user.transport_account_id = id,
                          !.user.privileges = SetToBag({"finanzorga"}),
                          !.wrote = @ \cup {<<"account", id>>}],
                << [t |-> "insert_account", row |-> row] >>,
                [NoNextval EXCEPT !.account = 1])
    [] OTHER -> _update_user(f, v, f.user.id, f.user)

promote_to_finanzorga(f, v, ch) ==
  CASE f.pc = "_get_user" ->
         LET user == _get_user(v, f.a.user_id)
         IN IF user = NoUser THEN Res(Raise(f, "NotFound"), <<>>, NoNextval)
            ELSE IF BagIn("finanzorga", user.privileges)
            THEN Res(Return(f, user), <<>>, NoNextval)
            ELSE Res([f EXCEPT !.pc = "insert_account", !.user = user], <<>>, NoNextval)
    [] f.pc = "insert_account" ->
         \* create backpack account
         LET id == v.account_id_seq + 1
             row == [id |-> id, type |-> AccountType_internal,
                     name |-> <<"Transport account for finanzorga", f.user.name>>]
         IN Res([f EXCEPT !.pc = "update_usr",
                          !.user.transport_account_id = id,
                          !.user.privileges = @ (+) SetToBag({"finanzorga"}),
                          !.wrote = @ \cup {<<"account", id>>}],
                << [t |-> "insert_account", row |-> row] >>,
                [NoNextval EXCEPT !.account = 1])
    [] OTHER -> _update_user(f, v, f.user.id, f.user)

\* list_users: every row of usr_with_privileges, hydrated (in no order that matters).
list_users(f, v, ch) ==
  Res([f EXCEPT !.status = "ok", !.pc = "done", !.users = {Hydrate(v, r) : r \in v.usr}],
      <<>>, NoNextval)

get_user(f, v, ch) ==
  LET user == _get_user(v, f.a.user_id)
  IN IF user = NoUser THEN Res(Raise(f, "NotFound"), <<>>, NoNextval)
     ELSE Res(Return(f, user), <<>>, NoNextval)

update_user(f, v, ch) == _update_user(f, v, f.a.user_id, f.user)

\* delete_user with "return result == \"DELETE 0\"".
delete_user_inverted(f, v, ch) ==
  LET result == {r \in v.usr : r.id = f.a.user_id}
  IN Res(ReturnBool(f, result = {}),
         IF result = {} THEN <<>> ELSE << [t |-> "delete_usr", id |-> f.a.user_id] >>,
         NoNextval)

delete_user(f, v, ch) ==
  LET result == {r \in v.usr : r.id = f.a.user_id}
  IN Res(ReturnBool(f, result # {}),
         IF result = {} THEN <<>> ELSE << [t |-> "delete_usr", id |-> f.a.user_id] >>,
         NoNextval)

link_user_to_cashier_account(f, v, ch) ==
  LET result == {r \in v.usr : r.id = f.a.user_id}
  IN Res(ReturnBool(f, result # {}),
         IF result = {} THEN <<>>
         ELSE << [t |-> "set_cashier_account_id", id |-> f.a.user_id,
                  account_id |-> f.a.account_id] >>,
         NoNextval)

link_user_to_transport_account(f, v, ch) ==
  LET result == {r \in v.usr : r.id = f.a.user_id}
  IN Res(ReturnBool(f, result # {}),
         IF result = {} THEN <<>>
         ELSE << [t |-> "set_transport_account_id", id |-> f.a.user_id,
                  account_id |-> f.a.account_id] >>,
         NoNextval)

\* login_user raising NotFoundException for a name it does not find.
login_user_raising(f, v, ch) ==
  CASE f.pc = "select_usr" ->
         LET rows == {r \in v.usr : r.name = f.a.username}
             row == FetchRow(rows, ch.pick)
         IN IF rows = {} THEN Res(Raise(f, "NotFound"), <<>>, NoNextval)
            ELSE IF ~_check_password(f.a.password, row.password)
            THEN Res(Return(f, NoUser), <<>>, NoNextval)
            ELSE Res([f EXCEPT !.pc = "insert_usr_session", !.user = Hydrate(v, row)],
                     <<>>, NoNextval)
    [] f.pc = "insert_usr_session" ->
         LET session_id == v.usr_session_id_seq + 1
             token == create_user_access_token(f.user.id, session_id)
         IN Res([Return(f, f.user) EXCEPT !.token = token,
                                          !.wrote = @ \cup {<<"usr_session", session_id>>}],
                << [t |-> "insert_usr_session",
                    row |-> [id |-> session_id, usr |-> f.user.id]] >>,
                [NoNextval EXCEPT !.usr_session = 1])

\* login_user passing the ids to UserTokenMetadata the wrong way round.
login_user_swapped(f, v, ch) ==
  CASE f.pc = "select_usr" ->
         LET rows == {r \in v.usr : r.name = f.a.username}
             row == FetchRow(rows, ch.pick)
         IN IF rows = {} THEN Res(Return(f, NoUser), <<>>, NoNextval)
            ELSE IF ~_check_password(f.a.password, row.password)
            THEN Res(Return(f, NoUser), <<>>, NoNextval)
            ELSE Res([f EXCEPT !.pc = "insert_usr_session", !.user = Hydrate(v, row)],
                     <<>>, NoNextval)
    [] f.pc = "insert_usr_session" ->
         LET session_id == v.usr_session_id_seq + 1
             token == create_user_access_token(session_id, f.user.id)
         IN Res([Return(f, f.user) EXCEPT !.token = token,
                                          !.wrote = @ \cup {<<"usr_session", session_id>>}],
                << [t |-> "insert_usr_session",
                    row |-> [id |-> session_id, usr |-> f.user.id]] >>,
                [NoNextval EXCEPT !.usr_session = 1])

\* A login that fails returns None: status ok, no user, no token.
login_user(f, v, ch) ==
  CASE f.pc = "select_usr" ->
         LET rows == {r \in v.usr : r.name = f.a.username}
             row == FetchRow(rows, ch.pick)
         IN IF rows = {} THEN Res(Return(f, NoUser), <<>>, NoNextval)
            ELSE IF ~_check_password(f.a.password, row.password)
            THEN Res(Return(f, NoUser), <<>>, NoNextval)
            ELSE Res([f EXCEPT !.pc = "insert_usr_session", !.user = Hydrate(v, row)],
                     <<>>, NoNextval)
    [] f.pc = "insert_usr_session" ->
         LET session_id == v.usr_session_id_seq + 1
             token == create_user_access_token(f.user.id, session_id)
         IN Res([Return(f, f.user) EXCEPT !.token = token,
                                          !.wrote = @ \cup {<<"usr_session", session_id>>}],
                << [t |-> "insert_usr_session",
                    row |-> [id |-> session_id, usr |-> f.user.id]] >>,
                [NoNextval EXCEPT !.usr_session = 1])

\* logout_user deleting the session the token names, whoever calls.
logout_user_any_owner(f, v, ch) ==
  LET token_payload == decode_user_jwt_payload(f.a.token)
      result == {s \in v.usr_session :
                   s.usr = token_payload.user_id /\ s.id = token_payload.session_id}
  IN IF token_payload.user_id = NULL THEN Res(ReturnBool(f, FALSE), <<>>, NoNextval)
     ELSE Res(ReturnBool(f, result # {}),
              << [t |-> "delete_usr_session", usr |-> token_payload.user_id,
                  id |-> token_payload.session_id] >>,
              NoNextval)

\* logout_user returning True whatever the delete found.
logout_user_always_true(f, v, ch) ==
  LET token_payload == decode_user_jwt_payload(f.a.token)
      result == {s \in v.usr_session :
                   s.usr = f.current_user.id /\ s.id = token_payload.session_id}
  IN IF token_payload.user_id = NULL THEN Res(ReturnBool(f, FALSE), <<>>, NoNextval)
     ELSE IF f.current_user.id # token_payload.user_id
     THEN Res(ReturnBool(f, FALSE), <<>>, NoNextval)
     ELSE Res(ReturnBool(f, TRUE),
              << [t |-> "delete_usr_session", usr |-> f.current_user.id,
                  id |-> token_payload.session_id] >>,
              NoNextval)

logout_user(f, v, ch) ==
  LET token_payload == decode_user_jwt_payload(f.a.token)
      result == {s \in v.usr_session :
                   s.usr = f.current_user.id /\ s.id = token_payload.session_id}
  IN IF token_payload.user_id = NULL THEN Res(ReturnBool(f, FALSE), <<>>, NoNextval)
     ELSE IF f.current_user.id # token_payload.user_id
     THEN Res(ReturnBool(f, FALSE), <<>>, NoNextval)
     ELSE Res(ReturnBool(f, result # {}),
              << [t |-> "delete_usr_session", usr |-> f.current_user.id,
                  id |-> token_payload.session_id] >>,
              NoNextval)

\* One step of a call in flight, on the store v its transaction sees.
Step(f, v, ch) ==
  IF f.pc = "guard" THEN Res(Guard(f), <<>>, NoNextval)
  ELSE CASE f.op = "create_user_no_auth" -> create_user_no_auth(f, v, ch)
         [] f.op = "create_user" -> create_user(f, v, ch)
         [] f.op = "create_user_with_tag" -> create_user_with_tag(f, v, ch)
         [] f.op = "promote_to_cashier" -> promote_to_cashier(f, v, ch)
         [] f.op = "promote_to_finanzorga" -> promote_to_finanzorga(f, v, ch)
         [] f.op = "list_users" -> list_users(f, v, ch)
         [] f.op = "get_user" -> get_user(f, v, ch)
         [] f.op = "update_user" -> update_user(f, v, ch)
         [] f.op = "delete_user" -> delete_user(f, v, ch)
         [] f.op = "link_user_to_cashier_account" -> link_user_to_cashier_account(f, v, ch)
         [] f.op = "link_user_to_transport_account" -> link_user_to_transport_account(f, v, ch)
         [] f.op = "login_user" -> login_user(f, v, ch)
         [] f.op = "logout_user" -> logout_user(f, v, ch)

\* ------------------------------------------------------------ transactions
\* with_db_transaction: commit when the call returns, roll back when it raises.
with_db_transaction(f, D, w) ==
  IF f.status = "ok" THEN ApplyAll(D, w) ELSE D

\* A handler called without the caller's connection commits its own transaction
\* when it returns.
AfterStep(s, D, w) ==
  IF s.f.commit
  THEN [f |-> [s.f EXCEPT !.commit = FALSE], D |-> ApplyAll(Nextval(D, s.nv), w \o s.w), w |-> <<>>]
  ELSE [f |-> s.f, D |-> Nextval(D, s.nv), w |-> w \o s.w]

\* A call run from its decorators to its return or exception, with nothing in between.
RECURSIVE Run(_, _, _, _)
Run(f, D, w, ch) ==
  IF f.pc = "done" THEN [f |-> f, D |-> with_db_transaction(f, D, w)]
  ELSE LET n == AfterStep(Step(f, ApplyAll(D, w), ch), D, w)
       IN Run(n.f, n.D, n.w, ch)

\* What is recorded of a completed call: its arguments and its response.
Summary(f) ==
  [api |-> f.api, a |-> f.a,
   current_user |-> f.current_user, terminal |-> f.terminal,
   status |-> f.status, ret |-> f.ret, ok |-> f.ok, token |-> f.token, users |-> f.users,
   checked |-> f.checked, wrote |-> f.wrote]

Idle == [f |-> [NewFrame("idle", NoArgs, NoUser, FALSE) EXCEPT !.pc = "done", !.status = "idle"],
         w |-> <<>>]

NoCall == Summary(Idle.f)

Procs == {1, 2}

WithinBounds(D) ==
  /\ D.usr_id_seq <= MaxUsers
  /\ D.account_id_seq <= MaxAccounts
  /\ D.usr_session_id_seq <= MaxSessions

Install(D) ==
  /\ usr' = D.usr
  /\ usr_privs' = D.usr_privs
  /\ account' = D.account
  /\ usr_session' = D.usr_session
  /\ usr_id_seq' = D.usr_id_seq
  /\ account_id_seq' = D.account_id_seq
  /\ usr_session_id_seq' = D.usr_session_id_seq

\* The caller has taken the response of the call before, and may call again.
Ready ==
  /\ last = NoCall
  /\ ncalls < MaxCalls

\* One call of a public operation, alone on the store.
Call(api, a, current_user, terminal, ch) ==
  /\ \E r \in {Run(NewFrame(api, a, current_user, terminal), DB, <<>>, ch)} :
       /\ WithinBounds(r.D)
       /\ Install(r.D)
       /\ last' = Summary(r.f)
  /\ ncalls' = ncalls + 1
  /\ UNCHANGED proc

\* The caller takes the response.
Deliver ==
  /\ last # NoCall
  /\ last' = NoCall
  /\ UNCHANGED <<tables, usr_id_seq, account_id_seq, usr_session_id_seq, ncalls, proc>>

\* ------------------------------------------------------------ inputs
Principal(id, privileges) == [NoUser EXCEPT !.id = id, !.privileges = SetToBag(privileges)]

Admin == Principal(1, {"admin"})

\* Who calls: nobody authenticated, an admin, a cashier; at a terminal or not.
Principals == {NoUser, Principal(1, {"admin"}), Principal(2, {"cashier"})}
Callers ==
  {[current_user |-> NoUser, terminal |-> TRUE],
   [current_user |-> Principal(1, {"admin"}), terminal |-> TRUE],
   [current_user |-> Principal(1, {"admin"}), terminal |-> FALSE],
   [current_user |-> Principal(2, {"cashier"}), terminal |-> TRUE]}

\* UserWithoutId values a caller supplies: a name, a tag or none, and no privilege
\* or cashier (with no account named).
UserInputs ==
  {[NoUser EXCEPT !.name = n, !.privileges = SetToBag(k.privileges), !.user_tag_id = t,
                  !.cashier_account_id = k.cashier_account_id] :
     n \in Names, t \in {NULL} \cup TagIds,
     k \in {[privileges |-> {}, cashier_account_id |-> NULL],
            [privileges |-> {"cashier"}, cashier_account_id |-> NULL]}}

\* Whether the decorators of api let this caller in.
Admits(api, current_user, terminal) ==
  Guard(NewFrame(api, NoArgs, current_user, terminal)).status = "run"

\* The arguments a caller is tried with: every one of A when the guard lets the caller
\* in, one of them when it turns the caller away (the guard reads no argument).
Tried(api, current_user, terminal, A) ==
  IF Admits(api, current_user, terminal) THEN A ELSE {CHOOSE a \in A : TRUE}

NoChoice == [salt |-> 1, pick |-> 1]
Salts == {[NoChoice EXCEPT !.salt = x] : x \in 1..MaxSalt}
\* The rows a fetchrow may return, when more than one matches.
Picks(rows) ==
  IF rows = {} THEN {NoChoice} ELSE {[NoChoice EXCEPT !.pick = r.id] : r \in rows}
TagRows(uid) == {r \in usr : \E t \in user_tag : t.uid = uid /\ r.user_tag_id = t.id}
NameRows(username) == {r \in usr : r.name = username}

Tokens == {create_user_access_token(u, s) : u \in UserIds, s \in SessionIds} \cup {<<"garbage">>}

\* ------------------------------------------------------------ Spec: calls one after the other
Do_create_user_no_auth ==
  /\ Ready
  /\ \E new_user \in UserInputs, password \in {""} \cup Passwords, ch \in Salts :
    Call("create_user_no_auth", [NoArgs EXCEPT !.user = new_user, !.password = password],
         NoUser, FALSE, ch)

Do_create_user ==
  /\ Ready
  /\ \E cu \in Principals, ch \in Salts :
    \E a \in Tried("create_user", cu, FALSE,
                   {[NoArgs EXCEPT !.user = new_user, !.password = password] :
                      new_user \in UserInputs, password \in {""} \cup Passwords}) :
      Call("create_user", a, cu, FALSE, ch)

Do_create_cashier ==
  /\ Ready
  /\ \E c \in Callers :
    \E a \in Tried("create_cashier", c.current_user, c.terminal,
                   {[NoArgs EXCEPT !.name = n, !.user_tag = uid] :
                      n \in Names, uid \in TagUids}) :
      \E ch \in Picks(TagRows(a.user_tag)) :
        Call("create_cashier", a, c.current_user, c.terminal, ch)

Do_create_finanzorga ==
  /\ Ready
  /\ \E c \in Callers :
    \E a \in Tried("create_finanzorga", c.current_user, c.terminal,
                   {[NoArgs EXCEPT !.name = n, !.user_tag = uid] :
                      n \in Names, uid \in TagUids}) :
      \E ch \in Picks(TagRows(a.user_tag)) :
        Call("create_finanzorga", a, c.current_user, c.terminal, ch)

Do_create_user_with_tag ==
  /\ Ready
  /\ \E cu \in Principals :
    \E a \in Tried("create_user_with_tag", cu, FALSE,
                   {[NoArgs EXCEPT !.name = n, !.user_tag = uid] :
                      n \in Names, uid \in TagUids}) :
      \E ch \in Picks(TagRows(a.user_tag)) :
        Call("create_user_with_tag", a, cu, FALSE, ch)

Do_promote_to_cashier ==
  /\ Ready
  /\ \E cu \in Principals :
    \E a \in Tried("promote_to_cashier", cu, FALSE,
                   {[NoArgs EXCEPT !.user_id = user_id] : user_id \in UserIds}) :
      Call("promote_to_cashier", a, cu, FALSE, NoChoice)

Do_promote_to_finanzorga ==
  /\ Ready
  /\ \E cu \in Principals :
    \E a \in Tried("promote_to_finanzorga", cu, FALSE,
                   {[NoArgs EXCEPT !.user_id = user_id] : user_id \in UserIds}) :
      Call("promote_to_finanzorga", a, cu, FALSE, NoChoice)

Do_list_users ==
  /\ Ready
  /\ \E cu \in Principals :
      Call("list_users", NoArgs, cu, FALSE, NoChoice)

Do_get_user ==
  /\ Ready
  /\ \E cu \in Principals :
    \E a \in Tried("get_user", cu, FALSE,
                   {[NoArgs EXCEPT !.user_id = user_id] : user_id \in UserIds}) :
      Call("get_user", a, cu, FALSE, NoChoice)

Do_update_user ==
  /\ Ready
  /\ \E cu \in Principals :
    \E a \in Tried("update_user", cu, FALSE,
                   {[NoArgs EXCEPT !.user_id = user_id, !.user = user] :
                      user_id \in UserIds, user \in UserInputs}) :
      Call("update_user", a, cu, FALSE, NoChoice)

Do_delete_user ==
  /\ Ready
  /\ \E cu \in Principals :
    \E a \in Tried("delete_user", cu, FALSE,
                   {[NoArgs EXCEPT !.user_id = user_id] : user_id \in UserIds}) :
      Call("delete_user", a, cu, FALSE, NoChoice)

Do_link_user_to_cashier_account ==
  /\ Ready
  /\ \E cu \in Principals :
    \E a \in Tried("link_user_to_cashier_account", cu, FALSE,
                   {[NoArgs EXCEPT !.user_id = user_id, !.account_id = account_id] :
                      user_id \in UserIds, account_id \in AccountIds}) :
      Call("link_user_to_cashier_account", a, cu, FALSE, NoChoice)

Do_link_user_to_transport_account ==
  /\ Ready
  /\ \E cu \in Principals :
    \E a \in Tried("link_user_to_transport_account", cu, FALSE,
                   {[NoArgs EXCEPT !.user_id = user_id, !.account_id = account_id] :
                      user_id \in UserIds, account_id \in AccountIds}) :
      Call("link_user_to_transport_account", a, cu, FALSE, NoChoice)

Do_login_user ==
  /\ Ready
  /\ \E username \in Names, password \in Passwords \cup {"wrong"} :
    \E ch \in Picks(NameRows(username)) :
      Call("login_user", [NoArgs EXCEPT !.username = username, !.password = password],
           NoUser, FALSE, ch)

Do_logout_user ==
  /\ Ready
  /\ \E cu \in Principals :
    \E a \in Tried("logout_user", cu, FALSE,
                   {[NoArgs EXCEPT !.token = token] : token \in Tokens}) :
      Call("logout_user", a, cu, FALSE, NoChoice)

Init ==
  /\ usr = {}
  /\ usr_privs = EmptyBag
  /\ account = {}
  /\ usr_session = {}
  /\ usr_id_seq = 0
  /\ account_id_seq = 0
  /\ usr_session_id_seq = 0
  /\ last = NoCall
  /\ ncalls = 0
  /\ proc = [p \in Procs |-> Idle]

Next ==
  \/ Do_create_user_no_auth
  \/ Do_create_user
  \/ Do_create_cashier
  \/ Do_create_finanzorga
  \/ Do_create_user_with_tag
  \/ Do_promote_to_cashier
  \/ Do_promote_to_finanzorga
  \/ Do_list_users
  \/ Do_get_user
  \/ Do_update_user
  \/ Do_delete_user
  \/ Do_link_user_to_cashier_account
  \/ Do_link_user_to_transport_account
  \/ Do_login_user
  \/ Do_logout_user
  \/ Deliver

Spec == Init /\ [][Next]_vars

\* ------------------------------------------------------------ SpecConc: two calls interleaved
\* Two connections, each with at most one call in flight.  A statement reads the
\* committed store as it is when the statement runs, plus the writes of its own
\* transaction (read committed); a row of usr that a transaction has updated or deleted
\* is locked until that transaction ends, and a statement of another transaction that
\* writes the row waits for it.  The callers here are admins at a terminal.
MaxConcCalls == 3

\* The decorators read nothing of the store: they run with the call's first statement.
RECURSIVE SkipGuards(_)
SkipGuards(f) == IF f.pc = "guard" THEN SkipGuards(Guard(f)) ELSE f

\* The usr rows a list of writes locks.
LocksOf(w) ==
  {w[i].id : i \in {j \in DOMAIN w :
                      w[j].t \in {"update_usr", "set_cashier_account_id",
                                  "set_transport_account_id", "delete_usr"}}}

\* A statement of p that writes a usr row another open transaction has locked waits.
Blocked(p, w) ==
  \E q \in Procs \ {p} : LocksOf(w) \cap LocksOf(proc[q].w) # {}

ConcUserInputs == {u \in UserInputs : u.name = "bob" /\ u.user_tag_id = NULL}

\* Connection p has no call in flight, and there are calls left to make.
Free(p) ==
  /\ proc[p] = Idle
  /\ ncalls < MaxConcCalls

\* Connection p takes a call: the transaction begins.
StartCall(p, api, a) ==
  /\ proc' = [proc EXCEPT ![p] = [f |-> SkipGuards(NewFrame(api, a, Admin, TRUE)),
                                  w |-> <<>>]]
  /\ ncalls' = ncalls + 1
  /\ UNCHANGED <<tables, usr_id_seq, account_id_seq, usr_session_id_seq, last>>

Begin_create_user_with_tag(p) ==
  /\ Free(p)
  /\ \E n \in Names, uid \in TagUids :
      StartCall(p, "create_user_with_tag", [NoArgs EXCEPT !.name = n, !.user_tag = uid])

Begin_create_cashier(p) ==
  /\ Free(p)
  /\ \E n \in Names, uid \in TagUids :
      StartCall(p, "create_cashier", [NoArgs EXCEPT !.name = n, !.user_tag = uid])

Begin_create_finanzorga(p) ==
  /\ Free(p)
  /\ \E n \in Names, uid \in TagUids :
      StartCall(p, "create_finanzorga", [NoArgs EXCEPT !.name = n, !.user_tag = uid])

Begin_promote_to_cashier(p) ==
  /\ Free(p)
  /\ \E user_id \in UserIds :
      StartCall(p, "promote_to_cashier", [NoArgs EXCEPT !.user_id = user_id])

Begin_promote_to_finanzorga(p) ==
  /\ Free(p)
  /\ \E user_id \in UserIds :
      StartCall(p, "promote_to_finanzorga", [NoArgs EXCEPT !.user_id = user_id])

Begin_update_user(p) ==
  /\ Free(p)
  /\ \E user_id \in UserIds, user \in ConcUserInputs :
      StartCall(p, "update_user", [NoArgs EXCEPT !.user_id = user_id, !.user = user])

Begin_delete_user(p) ==
  /\ Free(p)
  /\ \E user_id \in UserIds :
      StartCall(p, "delete_user", [NoArgs EXCEPT !.user_id = user_id])

\* The next statement of the call on connection p.
Stmt(p) ==
  /\ proc[p].f.pc # "done"
  /\ \E ch \in Picks(usr) :
       \E s \in {Step(proc[p].f, ApplyAll(DB, proc[p].w), ch)} :
         /\ ~Blocked(p, s.w)
         /\ \E n \in {AfterStep(s, DB, proc[p].w)} :
              /\ WithinBounds(n.D)
              /\ Install(n.D)
              /\ proc' = [proc EXCEPT ![p] = [f |-> SkipGuards(n.f), w |-> n.w]]
  /\ UNCHANGED <<last, ncalls>>

\* The call on connection p returns or raises: with_db_transaction commits or rolls back.
End(p) ==
  /\ proc[p].f.api # "idle"
  /\ proc[p].f.pc = "done"
  /\ Install(with_db_transaction(proc[p].f, DB, proc[p].w))
  /\ proc' = [proc EXCEPT ![p] = Idle]
  /\ UNCHANGED <<last, ncalls>>

NextConc ==
  \E p \in Procs :
    \/ Begin_create_user_with_tag(p)
    \/ Begin_create_cashier(p)
    \/ Begin_create_finanzorga(p)
    \/ Begin_promote_to_cashier(p)
    \/ Begin_promote_to_finanzorga(p)
    \/ Begin_update_user(p)
    \/ Begin_delete_user(p)
    \/ Stmt(p)
    \/ End(p)

SpecConc == Init /\ [][NextConc]_vars

\* Two calls on two connections against a store that holds two users already: the
\* store two create_user_no_auth calls leave behind.
NoRows == [usr |-> {}, usr_privs |-> EmptyBag, account |-> {}, usr_session |-> {},
           usr_id_seq |-> 0, account_id_seq |-> 0, usr_session_id_seq |-> 0]

After(D, api, a) == Run(NewFrame(api, a, Admin, TRUE), D, <<>>, NoChoice).D

TwoUsers ==
  After(After(NoRows, "create_user_no_auth", [NoArgs EXCEPT !.user.name = "alice"]),
        "create_user_no_auth", [NoArgs EXCEPT !.user.name = "bob"])

InitPair ==
  /\ usr = TwoUsers.usr
  /\ usr_privs = TwoUsers.usr_privs
  /\ account = TwoUsers.account
  /\ usr_session = TwoUsers.usr_session
  /\ usr_id_seq = TwoUsers.usr_id_seq
  /\ account_id_seq = TwoUsers.account_id_seq
  /\ usr_session_id_seq = TwoUsers.usr_session_id_seq
  /\ last = NoCall
  /\ ncalls = 0
  /\ proc = [p \in Procs |-> Idle]

\* The call on connection p returns or raises, and its caller takes the response.
Finish(p) ==
  /\ proc[p].f.api # "idle"
  /\ proc[p].f.pc = "done"
  /\ Install(with_db_transaction(proc[p].f, DB, proc[p].w))
  /\ proc' = [proc EXCEPT ![p] = Idle]
  /\ last' = Summary(proc[p].f)
  /\ UNCHANGED ncalls

NextPair ==
  \E p \in Procs :
    \/ Begin_promote_to_cashier(p)
    \/ Begin_promote_to_finanzorga(p)
    \/ Begin_update_user(p)
    \/ Begin_delete_user(p)
    \/ Stmt(p)
    \/ Finish(p)

SpecPair == InitPair /\ [][NextPair]_vars


\* ------------------------------------------------------------ properties
Holds(privs, u, p) == CopiesIn([usr |-> u, priv |-> p], privs) > 0
RowsOf(rows, u) == {r \in rows : r.id = u}
Store == <<usr, usr_privs, account, usr_session, usr_id_seq, account_id_seq,
           usr_session_id_seq>>

\* C1: promote_to_cashier is idempotent when called twice in a row: after a successful
\* promote_to_cashier(user_id), the same call again succeeds, returns the same
\* cashier_account_id, inserts no account row (and draws no account id), and leaves the
\* user holding cashier exactly once.
C1_PromoteToCashierIdempotent ==
  (last.api = "promote_to_cashier" /\ last.status = "ok") =>
    \E r \in {Run(NewFrame("promote_to_cashier", last.a, last.current_user, FALSE),
                  DB, <<>>, NoChoice)} :
      /\ r.f.status = "ok"
      /\ r.f.ret.cashier_account_id = last.ret.cashier_account_id
      /\ r.f.ret.id = last.ret.id
      /\ r.D.account = account
      /\ r.D.account_id_seq = account_id_seq
      /\ CopiesIn("cashier", r.f.ret.privileges) = 1
      /\ CopiesIn([usr |-> last.a.user_id, priv |-> "cashier"], r.D.usr_privs) = 1

\* C1 witness: a first promote_to_cashier that created the account has returned.
C1_Witness ==
  /\ last.api = "promote_to_cashier"
  /\ last.status = "ok"
  /\ last.wrote # {}
  /\ last.ret.cashier_account_id # NULL

\* C2 witness: the first writer created the user of the tag.
C2_Witness ==
  /\ last.api = "create_user_with_tag"
  /\ last.status = "ok"
  /\ last.wrote = {<<"usr", last.ret.id>>}
  /\ last.ret.name = last.a.name

\* What C2 says of a successful create_user_with_tag(name, uid) that has just returned:
\* it wrote at most the one user row it returns, under the name given when it wrote it,
\* and the same call again, under any name and whichever row the lookup returns,
\* succeeds, returns the same user with every field as before, and changes nothing in
\* the store (no row, no id drawn).
SecondCallReturnsFirst ==
  /\ last.wrote \subseteq {<<"usr", last.ret.id>>}
  /\ (last.wrote # {} => last.ret.name = last.a.name)
  /\ \A n \in Names : \A ch \in Picks(TagRows(last.a.user_tag)) :
       \E r \in {Run(NewFrame("create_user_with_tag", [last.a EXCEPT !.name = n],
                              last.current_user, FALSE), DB, <<>>, ch)} :
         /\ r.f.status = "ok"
         /\ r.f.ret = last.ret
         /\ r.D = DB

\* C2 (as stated): create_user_with_tag is first-writer-wins for any known tag uid:
\* called twice in sequence with the same uid and different names it returns the same
\* user id both times, creates one user row at most, and the stored user stays as the
\* first call left it.
C2_Original ==
  (last.api = "create_user_with_tag" /\ last.status = "ok") => SecondCallReturnsFirst

\* C2 (as amended): the same, for a known tag uid that was bound to at most one user
\* before the first call; exactly one user is then bound to the tag after it.
C2_FirstWriterWins ==
  (/\ last.api = "create_user_with_tag"
   /\ last.status = "ok"
   /\ Cardinality(TagRows(last.a.user_tag)) - Cardinality(last.wrote) <= 1) =>
    /\ Cardinality(TagRows(last.a.user_tag)) = 1
    /\ SecondCallReturnsFirst

\* A user row u that holds a promotion privilege without the account that goes with it.
CashierWithoutAccount(rows, privs, u) ==
  \E r \in rows : r.id = u /\ Holds(privs, u, "cashier") /\ r.cashier_account_id = NULL
FinanzorgaWithoutAccount(rows, privs, u) ==
  \E r \in rows : r.id = u /\ Holds(privs, u, "finanzorga") /\ r.transport_account_id = NULL

\* C3 (as stated): in every reachable state a user holding cashier has
\* cashier_account_id set and a user holding finanzorga has transport_account_id set.
C3_Original ==
  \A u \in UserIds :
    /\ ~CashierWithoutAccount(usr, usr_privs, u)
    /\ ~FinanzorgaWithoutAccount(usr, usr_privs, u)

\* The operations that store the privileges and account ids their caller supplies.
StoresWhatItIsGiven == {"create_user", "create_user_no_auth", "update_user"}

\* C3 (as amended): no call of promote_to_cashier, promote_to_finanzorga, create_cashier,
\* create_finanzorga, link_user_to_*_account or any other operation brings a user into
\* holding cashier without cashier_account_id, or finanzorga without
\* transport_account_id; only create_user, create_user_no_auth and update_user, which
\* store the privilege set and account ids they are given, do.
C3_OnlySuppliedPrivilegesLackAccount ==
  [][\A u \in UserIds :
       /\ (CashierWithoutAccount(usr', usr_privs', u)
             /\ ~CashierWithoutAccount(usr, usr_privs, u))
          => last'.api \in StoresWhatItIsGiven
       /\ (FinanzorgaWithoutAccount(usr', usr_privs', u)
             /\ ~FinanzorgaWithoutAccount(usr, usr_privs, u))
          => last'.api \in StoresWhatItIsGiven]_vars

\* C3 witness: create_finanzorga has granted both privileges, each with its account.
C3_Witness ==
  /\ last.api = "create_finanzorga"
  /\ last.status = "ok"
  /\ \E r \in usr :
       /\ r.id = last.ret.id
       /\ Holds(usr_privs, r.id, "cashier") /\ r.cashier_account_id \in AccountIds
       /\ Holds(usr_privs, r.id, "finanzorga") /\ r.transport_account_id \in AccountIds
       /\ r.cashier_account_id # r.transport_account_id

\* User u holds cashier and its cashier account is a (resp. finanzorga and transport).
GrantedCashier(rows, privs, u, a) ==
  \E r \in rows : r.id = u /\ Holds(privs, u, "cashier") /\ r.cashier_account_id = a
GrantedFinanzorga(rows, privs, u, a) ==
  \E r \in rows : r.id = u /\ Holds(privs, u, "finanzorga") /\ r.transport_account_id = a

\* C4 (as stated): once a user holds cashier (finanzorga) with a linked
\* cashier_account_id (transport_account_id), no later public operation removes the
\* privilege or changes the linked account id.
C4_Original ==
  [][\A u \in UserIds, a \in AccountIds :
       /\ GrantedCashier(usr, usr_privs, u, a) => GrantedCashier(usr', usr_privs', u, a)
       /\ GrantedFinanzorga(usr, usr_privs, u, a)
            => GrantedFinanzorga(usr', usr_privs', u, a)]_vars

\* C4 (as amended): once a user holds cashier (finanzorga) with a linked account, only
\* update_user, delete_user and link_user_to_cashier_account
\* (link_user_to_transport_account) remove the privilege or change the linked account
\* id; no promotion, creation, login or logout does.
C4_PromotionMonotonic ==
  [][\A u \in UserIds, a \in AccountIds :
       /\ (GrantedCashier(usr, usr_privs, u, a) /\ ~GrantedCashier(usr', usr_privs', u, a))
          => last'.api \in {"update_user", "delete_user", "link_user_to_cashier_account"}
       /\ (GrantedFinanzorga(usr, usr_privs, u, a)
             /\ ~GrantedFinanzorga(usr', usr_privs', u, a))
          => last'.api \in {"update_user", "delete_user",
                            "link_user_to_transport_account"}]_vars

\* C4 witness: a user already promoted to cashier went through promote_to_finanzorga.
C4_Witness ==
  /\ last.api = "promote_to_finanzorga"
  /\ last.status = "ok"
  /\ last.wrote # {}
  /\ \E a \in AccountIds : GrantedCashier(usr, usr_privs, last.ret.id, a)
  /\ \E a \in AccountIds : GrantedFinanzorga(usr, usr_privs, last.ret.id, a)

\* The users bound to tag t.
BoundTo(rows, t) == {r \in rows : r.user_tag_id = t}

\* C5 (as stated): in every reachable state no two user rows share a non-null
\* user_tag_id.
C5_Original ==
  \A t \in TagIds : Cardinality(BoundTo(usr, t)) <= 1

\* C5 (as amended): create_user_with_tag, create_cashier, create_finanzorga and every
\* operation other than create_user, create_user_no_auth and update_user never bind a
\* tag to a second user; those three write the user_tag_id their caller supplies and are
\* the only ones that can.
C5_TagCreationBindsOnce ==
  [][\A t \in TagIds :
       (/\ Cardinality(BoundTo(usr', t)) > 1
        /\ Cardinality(BoundTo(usr', t)) > Cardinality(BoundTo(usr, t)))
       => last'.api \in StoresWhatItIsGiven]_vars

\* C5 witness: create_cashier on a tag that is bound already went on with its user.
C5_Witness ==
  /\ last.api = "create_cashier"
  /\ last.status = "ok"
  /\ <<"usr", last.ret.id>> \notin last.wrote
  /\ last.ret.name # last.a.name
  /\ BoundTo(usr, last.ret.user_tag_id) = RowsOf(usr, last.ret.id)

\* A step in which a call is made and returns.
CallReturns == last = NoCall /\ last' # NoCall

\* The operations decorated with requires_user_privileges([Privilege.admin]) and with
\* requires_terminal([Privilege.admin]), as listed in the source.
AdminGuarded ==
  {"create_user", "create_user_with_tag", "promote_to_cashier", "promote_to_finanzorga",
   "list_users", "get_user", "update_user", "delete_user",
   "link_user_to_cashier_account", "link_user_to_transport_account"}
TerminalGuarded == {"create_cashier", "create_finanzorga"}

\* C6: a guarded operation called by a principal that does not hold admin, or (for
\* requires_terminal) without a terminal context, fails with PermissionDenied and leaves
\* users, privileges, accounts and sessions (and the serials) exactly as before the call.
C6_GuardDeniesAndWritesNothing ==
  [][(/\ CallReturns
      /\ \/ /\ last'.api \in AdminGuarded \cup TerminalGuarded
            /\ ~BagIn("admin", last'.current_user.privileges)
         \/ /\ last'.api \in TerminalGuarded
            /\ ~last'.terminal)
     => (last'.status = "PermissionDenied" /\ Store' = Store)]_vars

\* C6 witness: an admin without a terminal context was refused create_cashier on a
\* store that holds users.
C6_Witness ==
  /\ last.api = "create_cashier"
  /\ BagIn("admin", last.current_user.privileges)
  /\ ~last.terminal
  /\ last.status = "PermissionDenied"
  /\ usr # {}

\* C7 (as stated): a user row or privilege row is created, changed or deleted only by a
\* call whose principal the authorization guard checked and who holds admin.
C7_Original ==
  [][(usr' # usr \/ usr_privs' # usr_privs)
     => (last'.checked /\ BagIn("admin", last'.current_user.privileges))]_vars

\* C7 (as amended): the same of every public operation except create_user_no_auth,
\* which is decorated with with_db_transaction alone and creates a user with the
\* privileges supplied for any caller.
C7_GuardedExceptNoAuth ==
  [][(usr' # usr \/ usr_privs' # usr_privs)
     => \/ last'.api = "create_user_no_auth"
        \/ (last'.checked /\ BagIn("admin", last'.current_user.privileges))]_vars

\* C7 witness: an admin, checked by the guard, deleted a user.
C7_Witness ==
  /\ last.api = "delete_user"
  /\ last.ok
  /\ last.checked
  /\ BagIn("admin", last.current_user.privileges)

\* The operations C8 names.
Composed ==
  {"create_cashier", "create_finanzorga", "promote_to_cashier", "promote_to_finanzorga",
   "update_user"}

\* A row a call has written, as the committed store T shows it.
Visible(T, row) ==
  CASE row[1] = "usr" -> \E r \in T[1] : r.id = row[2]
    [] row[1] = "account" -> \E r \in T[3] : r.id = row[2]
    [] row[1] = "usr_session" -> \E r \in T[4] : r.id = row[2]

\* C8: every public operation is all-or-nothing.  No step of a call changes the
\* committed tables except its return with success, which commits; so when
\* create_cashier, create_finanzorga, promote_to_cashier, promote_to_finanzorga or
\* update_user fails with NotFound (unknown tag uid, unknown user id, or the user row
\* gone when _update_user updates it), the committed tables are as they would be had
\* the call not been made, and no user or account row it wrote is visible afterwards.
C8_AllOrNothing ==
  [][\A p \in Procs :
       proc'[p] # proc[p] =>
         /\ tables' # tables => (proc[p].f.pc = "done" /\ proc[p].f.status = "ok")
         /\ (/\ proc[p].f.api \in Composed
             /\ proc[p].f.pc = "done"
             /\ proc[p].f.status = "NotFound")
            => /\ tables' = tables
               /\ \A row \in proc[p].f.wrote : ~Visible(tables', row)]_vars

\* C8 witness: a composed operation has failed with NotFound after it had inserted an
\* account row (the user row was deleted under it); its transaction is about to end.
C8_Witness ==
  \E p \in Procs :
    /\ proc[p].f.api \in {"create_cashier", "create_finanzorga"}
    /\ proc[p].f.pc = "done"
    /\ proc[p].f.status = "NotFound"
    /\ \E row \in proc[p].f.wrote : row[1] = "account"
    /\ proc[p].w # <<>>

\* What the caller of a completed call sees of it.
Response(c) ==
  [status |-> c.status, ret |-> c.ret, ok |-> c.ok, token |-> c.token, users |-> c.users]

\* login_user returning None.
NoneReturned ==
  [status |-> "ok", ret |-> NoUser, ok |-> FALSE, token |-> NoToken, users |-> {}]

\* C9: login_user with an unknown username and login_user with a known username whose
\* stored digest the password does not match give the caller the same response, None,
\* and in both cases no session row is inserted and nothing else in the store changes.
C9_LoginFailuresAlike ==
  [][(/\ CallReturns
      /\ last'.api = "login_user"
      /\ \A row \in NameRows(last'.a.username) :
           ~_check_password(last'.a.password, row.password))
     => (/\ Response(last') = NoneReturned
         /\ last'.wrote = {}
         /\ Store' = Store)]_vars

\* C9 witness: a login under a known name, with a digest stored, and the wrong password
\* has returned None.
C9_Witness ==
  /\ last.api = "login_user"
  /\ \E row \in NameRows(last.a.username) : row.password # NoHash
  /\ \A row \in NameRows(last.a.username) : ~_check_password(last.a.password, row.password)
  /\ Response(last) = NoneReturned

\* C10: a successful login_user (a row of that name whose digest the password matches)
\* returns that user, inserts exactly one session row owned by that user under an id no
\* session had before the call and above every id the serial has handed out (so the ids
\* of successive logins all differ, the serial never going back), changes no other
\* table, and returns a token that decodes to exactly {user_id, session_id of the row}.
C10_LoginCreatesSession ==
  [][/\ usr_session_id_seq' >= usr_session_id_seq
     /\ (CallReturns /\ last'.api = "login_user" /\ Response(last') # NoneReturned)
        => /\ last'.status = "ok"
           /\ \E row \in NameRows(last'.a.username) :
                /\ _check_password(last'.a.password, row.password)
                /\ last'.ret = Hydrate(DB, row)
           /\ \E s \in usr_session' :
                /\ s \notin usr_session
                /\ usr_session' = usr_session \cup {s}
                /\ \A x \in usr_session : x.id # s.id
                /\ s.id > usr_session_id_seq
                /\ s.id <= usr_session_id_seq'
                /\ s.usr = last'.ret.id
                /\ decode_user_jwt_payload(last'.token)
                     = [user_id |-> last'.ret.id, session_id |-> s.id]
           /\ usr' = usr /\ usr_privs' = usr_privs /\ account' = account]_vars

\* C10 witness: the second successful login of one user, its first session still there.
C10_Witness ==
  /\ last.api = "login_user"
  /\ last.ret # NoUser
  /\ \E s, t \in usr_session :
       /\ s.id # t.id
       /\ s.usr = last.ret.id /\ t.usr = last.ret.id
       /\ decode_user_jwt_payload(last.token).session_id = t.id

\* The session a token names, as a row of usr_session.
SessionOf(token) ==
  [id |-> decode_user_jwt_payload(token).session_id,
   usr |-> decode_user_jwt_payload(token).user_id]

\* C11: a session row leaves usr_session only in a logout_user call that returns True,
\* made by the user owning the row with a token that decodes to the row's (user_id,
\* session_id), and that call removes this one row and nothing else; a logout_user with
\* an undecodable token, or a token of another user, returns False and changes nothing;
\* no step changes a row in place (a row that appears carries an id no row had).
C11_OnlyOwnLogoutRemovesSession ==
  [][/\ \A s \in usr_session \ usr_session' :
          /\ CallReturns
          /\ last'.api = "logout_user"
          /\ last'.status = "ok"
          /\ last'.ok
          /\ s.usr = last'.current_user.id
          /\ s = SessionOf(last'.a.token)
          /\ usr_session' = usr_session \ {s}
          /\ usr' = usr /\ usr_privs' = usr_privs /\ account' = account
     /\ \A s \in usr_session' \ usr_session : \A x \in usr_session : x.id # s.id
     /\ (/\ CallReturns
         /\ last'.api = "logout_user"
         /\ \/ decode_user_jwt_payload(last'.a.token).user_id = NULL
            \/ decode_user_jwt_payload(last'.a.token).user_id # last'.current_user.id)
        => (/\ ~last'.ok
            /\ Admits("logout_user", last'.current_user, last'.terminal)
                 => last'.status = "ok"
            /\ Store' = Store)]_vars

\* C11 witness: a user has logged out of one session and another session of the same
\* user is still there.
C11_Witness ==
  /\ last.api = "logout_user"
  /\ last.ok
  /\ SessionOf(last.a.token) \notin usr_session
  /\ \E s \in usr_session : s.usr = last.current_user.id

\* The session ids the serial has handed out that no row of usr_session carries any more.
Deleted(sessions, seq) == {id \in 1..seq : \A s \in sessions : s.id # id}

\* C12: logout_user returns True exactly when it deleted a session row, which it does
\* exactly when the token's session is active and owned by the caller; a session id
\* once deleted is never active again, and a logout_user with a token of a deleted
\* session returns False whoever calls.
C12_LogoutTrueIffDeleted ==
  [][/\ (CallReturns /\ last'.api = "logout_user")
        => /\ last'.ok <=> usr_session' # usr_session
           /\ last'.ok <=> (/\ SessionOf(last'.a.token) \in usr_session
                            /\ SessionOf(last'.a.token).usr = last'.current_user.id)
           /\ last'.ok => SessionOf(last'.a.token) \notin usr_session'
     /\ Deleted(usr_session, usr_session_id_seq)
          \subseteq Deleted(usr_session', usr_session_id_seq')
     /\ \A cu \in Principals, token \in Tokens :
          SessionOf(token).id \in Deleted(usr_session, usr_session_id_seq)
            => ~Run(NewFrame("logout_user", [NoArgs EXCEPT !.token = token], cu, FALSE),
                    DB, <<>>, NoChoice).f.ok]_vars

\* C12 witness: the only session ever created was logged out, and its owner's second
\* logout with the same token has returned False.
C12_Witness ==
  /\ last.api = "logout_user"
  /\ last.status = "ok"
  /\ ~last.ok
  /\ usr_id_seq = 1
  /\ usr_session_id_seq = 1
  /\ usr_session = {}
  /\ last.current_user.id = 1
  /\ SessionOf(last.a.token) = [id |-> 1, usr |-> 1]

\* C13: update_user on an existing id stores and returns exactly the supplied
\* privileges, whatever the user held before (nothing held before survives unless
\* supplied), sets name, description, user_tag_id, transport_account_id and
\* cashier_account_id to the supplied values, and changes no other row; on an id no
\* user has it raises NotFound and leaves the whole store as it was.
C13_UpdateReplacesPrivileges ==
  [][(/\ CallReturns
      /\ last'.api = "update_user"
      /\ Admits("update_user", last'.current_user, last'.terminal))
     => IF RowsOf(usr, last'.a.user_id) = {}
        THEN /\ last'.status = "NotFound"
             /\ Store' = Store
        ELSE /\ last'.status = "ok"
             /\ last'.ret = [last'.a.user EXCEPT !.id = last'.a.user_id]
             /\ PrivsOf(DB', last'.a.user_id) = last'.a.user.privileges
             /\ WithoutPrivsOf(usr_privs', last'.a.user_id)
                  = WithoutPrivsOf(usr_privs, last'.a.user_id)
             /\ \A r \in RowsOf(usr', last'.a.user_id) :
                  Hydrate(DB', r) = last'.ret
             /\ {[id |-> r.id, password |-> r.password] : r \in usr'}
                  = {[id |-> r.id, password |-> r.password] : r \in usr}
             /\ usr' \ RowsOf(usr', last'.a.user_id) = usr \ RowsOf(usr, last'.a.user_id)
             /\ account' = account /\ usr_session' = usr_session]_vars

\* C13 witness: a user created by create_finanzorga, holding cashier and finanzorga
\* with both accounts, has been updated with a privilege list without finanzorga.
C13_Witness ==
  /\ last.api = "update_user"
  /\ last.status = "ok"
  /\ ncalls = 2
  /\ Cardinality(account) = 2
  /\ ~Holds(usr_privs, last.ret.id, "finanzorga")

\* The user ids the serial has handed out that no row of usr carries any more.
Gone(rows, seq) == {id \in 1..seq : RowsOf(rows, id) = {}}

\* C14: delete_user never raises for an admitted caller and returns True exactly when a
\* user row of that id existed; when none did, the store is unchanged; when one did, it
\* is removed and no other user row is touched, get_user on that id then fails
\* NotFound, and keeps failing: an id without a row never gets one again.
C14_DeleteTrueIffRemoved ==
  [][/\ (/\ CallReturns
         /\ last'.api = "delete_user"
         /\ Admits("delete_user", last'.current_user, last'.terminal))
        => /\ last'.status = "ok"
           /\ last'.ok <=> RowsOf(usr, last'.a.user_id) # {}
           /\ ~last'.ok => Store' = Store
           /\ usr' = usr \ RowsOf(usr, last'.a.user_id)
           /\ Run(NewFrame("get_user", last'.a, Admin, FALSE), DB', <<>>, NoChoice).f.status
                = "NotFound"
     /\ Gone(usr, usr_id_seq) \subseteq Gone(usr', usr_id_seq')
     /\ \A id \in UserIds :
          RowsOf(usr, id) = {}
            => Run(NewFrame("get_user", [NoArgs EXCEPT !.user_id = id], Admin, FALSE),
                   DB, <<>>, NoChoice).f.status = "NotFound"]_vars

\* C14 witness: delete_user has returned True for an id the serial handed out, and the
\* row is gone.
C14_Witness ==
  /\ last.api = "delete_user"
  /\ last.ok
  /\ last.a.user_id \in Gone(usr, usr_id_seq)

\* Connection p is about to return from a promote_to_cashier on user u that inserted
\* account a.
Promoted(p, u, a) ==
  /\ proc[p].f.api = "promote_to_cashier"
  /\ proc[p].f.a.user_id = u
  /\ proc[p].f.pc = "done"
  /\ proc[p].f.status = "ok"
  /\ proc[p].f.wrote = {<<"account", a>>}

\* C15: promote_to_cashier reads the user with a plain select, so a call can pass the
\* "cashier not in privileges" check and insert its account while another transaction
\* that links the same user to a cashier account commits; when the later call commits,
\* both account rows are in the store, the user holds cashier once and references the
\* later call's account, and the earlier account is referenced by no user.
C15_OverlappingPromotionsLeakAccount ==
  [][\A p \in Procs, u \in UserIds, a1, a2 \in AccountIds :
       (/\ Promoted(p, u, a2)
        /\ proc'[p] = Idle
        /\ \E r \in RowsOf(usr, u) : r.cashier_account_id = a1)
       => /\ a1 # a2
          /\ \E x, y \in account' : x.id = a1 /\ y.id = a2
          /\ \A r \in RowsOf(usr', u) : r.cashier_account_id = a2
          /\ RowsOf(usr', u) # {}
          /\ \A r \in usr' : r.cashier_account_id # a1 /\ r.transport_account_id # a1
          /\ CopiesIn([usr |-> u, priv |-> "cashier"], usr_privs') = 1]_vars

\* C15 witness: two promote_to_cashier calls for one user are in flight, both past the
\* check with an account inserted; the first is about to commit, the second is at its
\* update of the user row.
C15_Witness ==
  \E p, q \in Procs, u \in UserIds, a1, a2 \in AccountIds :
    /\ p # q
    /\ Promoted(p, u, a1)
    /\ proc[q].f.api = "promote_to_cashier"
    /\ proc[q].f.a.user_id = u
    /\ proc[q].f.pc = "update_usr"
    /\ proc[q].f.wrote = {<<"account", a2>>}
    /\ a1 # a2

\* The operations that create a user from a scanned tag.
TagCreators == {"create_user_with_tag", "create_cashier", "create_finanzorga"}

\* C16 (as stated): with the statements of two calls interleaved, whenever a tag-based
\* creation returns a user for a known tag uid, the store it has committed to holds no
\* user bound to that tag other than the one returned.
C16_Original ==
  [][\A p \in Procs :
       (/\ proc[p].f.api \in TagCreators
        /\ proc[p].f.pc = "done"
        /\ proc[p].f.status = "ok"
        /\ proc'[p] = Idle)
       => \A t \in user_tag :
            t.uid = proc[p].f.a.user_tag
              => BoundTo(usr', t.id) \subseteq RowsOf(usr', proc[p].f.ret.id)]_vars

\* The operations of C17, each on one user id.
PerUser == {"promote_to_cashier", "promote_to_finanzorga", "update_user", "delete_user"}

\* C17: starting from a store with two users, when the second of two calls to the same
\* operation on two different user ids returns, whatever the order their statements
\* ran in, the store is the one that running the two calls one after the other, in one
\* order or the other, leaves; after two successful promote_to_cashier
\* (promote_to_finanzorga) calls each user references an account of its own that did
\* not exist before.
C17_DifferentUsersDoNotConflict ==
  [][\A p \in Procs :
       (/\ ncalls = 2
        /\ proc[p].f.pc = "done"
        /\ proc'[p] = Idle
        /\ proc[3 - p] = Idle
        /\ last.api = proc[p].f.api
        /\ last.api \in PerUser
        /\ last.a.user_id # proc[p].f.a.user_id)
       => /\ DB' \in {After(After(TwoUsers, last.api, last.a), last.api, proc[p].f.a),
                      After(After(TwoUsers, last.api, proc[p].f.a), last.api, last.a)}
          /\ (/\ last.api \in {"promote_to_cashier", "promote_to_finanzorga"}
              /\ last.status = "ok"
              /\ proc[p].f.status = "ok")
             => \E x, y \in account' \ TwoUsers.account :
                  /\ x.id # y.id
                  /\ \A r \in RowsOf(usr', last.a.user_id) :
                       x.id = IF last.api = "promote_to_cashier"
                              THEN r.cashier_account_id ELSE r.transport_account_id
                  /\ \A r \in RowsOf(usr', proc[p].f.a.user_id) :
                       y.id = IF last.api = "promote_to_cashier"
                              THEN r.cashier_account_id ELSE r.transport_account_id]_vars

\* C17 witness: two promote_to_cashier calls on two different users are in flight
\* together, each with its account inserted and its update of its own user row done.
C17_Witness ==
  /\ proc[1].f.api = "promote_to_cashier"
  /\ proc[2].f.api = "promote_to_cashier"
  /\ proc[1].f.a.user_id # proc[2].f.a.user_id
  /\ proc[1].f.pc = "update_usr_privs"
  /\ proc[2].f.pc = "update_usr_privs"
  /\ LocksOf(proc[1].w) # {}
  /\ LocksOf(proc[2].w) # {}

\* The id of the tag with this uid (NULL when the uid is unknown).
TagIdOf(uid) ==
  IF \E t \in user_tag : t.uid = uid THEN (CHOOSE t \in user_tag : t.uid = uid).id ELSE NULL

AccountRowIds(rows) == {a.id : a \in rows}

\* C18 (as stated): after a successful create_finanzorga the user returned holds cashier
\* and finanzorga and both its cashier_account_id and transport_account_id are ids of
\* account rows; after a successful create_cashier it holds cashier and its
\* cashier_account_id is set.
C18_Original ==
  [][(/\ CallReturns
      /\ last'.api \in {"create_cashier", "create_finanzorga"}
      /\ last'.status = "ok")
     => /\ Holds(usr_privs', last'.ret.id, "cashier")
        /\ last'.ret.cashier_account_id \in AccountRowIds(account')
        /\ last'.api = "create_finanzorga"
           => /\ Holds(usr_privs', last'.ret.id, "finanzorga")
              /\ last'.ret.transport_account_id \in AccountRowIds(account')]_vars

\* C18 (as amended): a successful create_finanzorga (create_cashier) on a known tag uid
\* returns the stored user, bound to that tag: one of the users bound to it before the
\* call if there was one, and otherwise a new one, the only user bound. The user holds
\* cashier and finanzorga (cashier) and every privilege it held before. For a privilege
\* the user did not hold before, the account id is that of an account row the call
\* inserted; for one it held already, the account id is left as it was.
C18_CreateGrantsOnTopOfWhatIsHeld ==
  [][(/\ CallReturns
      /\ last'.api \in {"create_cashier", "create_finanzorga"}
      /\ last'.status = "ok")
     => /\ TagIdOf(last'.a.user_tag) # NULL
        /\ \E r \in usr' :
             /\ r.id = last'.ret.id
             /\ r.user_tag_id = TagIdOf(last'.a.user_tag)
             /\ Hydrate(DB', r) = last'.ret
             /\ IF Holds(usr_privs, r.id, "cashier")
                THEN \E o \in RowsOf(usr, r.id) : r.cashier_account_id = o.cashier_account_id
                ELSE r.cashier_account_id \in AccountRowIds(account' \ account)
             /\ IF Holds(usr_privs, r.id, "finanzorga") \/ last'.api = "create_cashier"
                THEN \A o \in RowsOf(usr, r.id) :
                       r.transport_account_id = o.transport_account_id
                ELSE r.transport_account_id \in AccountRowIds(account' \ account)
        /\ IF BoundTo(usr, TagIdOf(last'.a.user_tag)) # {}
           THEN /\ last'.ret.id \in {r.id : r \in BoundTo(usr, TagIdOf(last'.a.user_tag))}
                /\ {r.id : r \in usr'} = {r.id : r \in usr}
           ELSE /\ last'.ret.id \notin {r.id : r \in usr}
                /\ BoundTo(usr', TagIdOf(last'.a.user_tag)) = RowsOf(usr', last'.ret.id)
        /\ Holds(usr_privs', last'.ret.id, "cashier")
        /\ last'.api = "create_finanzorga" => Holds(usr_privs', last'.ret.id, "finanzorga")
        /\ \A p \in Privilege :
             CopiesIn([usr |-> last'.ret.id, priv |-> p], usr_privs')
               >= CopiesIn([usr |-> last'.ret.id, priv |-> p], usr_privs)]_vars

\* C18 witness: create_finanzorga on a tag bound to a user who was a cashier with an
\* account has inserted the transport account only, and the user has both.
C18_Witness ==
  /\ last.api = "create_finanzorga"
  /\ last.status = "ok"
  /\ last.wrote = {<<"account", last.ret.transport_account_id>>}
  /\ last.ret.cashier_account_id \in AccountRowIds(account)
  /\ BagIn("cashier", last.ret.privileges)
  /\ BagIn("finanzorga", last.ret.privileges)

\* The store differs from the one before by one new account row, linked to user u in
\* the given column, and one more usr_privs row (u, priv); nothing else differs.
OnlyGranted(u, priv, column) ==
  /\ \E new \in account' \ account :
       /\ account' = account \cup {new}
       /\ new.id \notin AccountRowIds(account)
       /\ \E o \in RowsOf(usr, u) :
            /\ RowsOf(usr, u) = {o}
            /\ usr' = (usr \ {o})
                       \cup {IF column = "cashier_account_id"
                             THEN [o EXCEPT !.cashier_account_id = new.id]
                             ELSE [o EXCEPT !.transport_account_id = new.id]}
  /\ usr_privs' = usr_privs (+) SetToBag({[usr |-> u, priv |-> priv]})
  /\ usr_session' = usr_session
  /\ usr_id_seq' = usr_id_seq
  /\ usr_session_id_seq' = usr_session_id_seq

\* C19: a successful promote_to_cashier on a user not holding cashier inserts exactly
\* one account row, sets the user's cashier_account_id to its id and adds one usr_privs
\* row (user, cashier); the user's id, name, description, user_tag_id,
\* transport_account_id, stored password and other privileges, every other user row,
\* every other account row and the sessions are as before. promote_to_finanzorga does
\* the same with transport_account_id and finanzorga. On a user already holding the
\* privilege either call leaves the store unchanged.
C19_PromotionChangesOnlyWhatItGrants ==
  [][/\ (CallReturns /\ last'.api = "promote_to_cashier" /\ last'.status = "ok")
        => IF Holds(usr_privs, last'.a.user_id, "cashier")
           THEN Store' = Store
           ELSE OnlyGranted(last'.a.user_id, "cashier", "cashier_account_id")
     /\ (CallReturns /\ last'.api = "promote_to_finanzorga" /\ last'.status = "ok")
        => IF Holds(usr_privs, last'.a.user_id, "finanzorga")
           THEN Store' = Store
           ELSE OnlyGranted(last'.a.user_id, "finanzorga", "transport_account_id")]_vars

\* C19 witness: promote_to_cashier has inserted the cashier account of a user who is
\* bound to a tag and was a finanzorga with a transport account before.
C19_Witness ==
  /\ last.api = "promote_to_cashier"
  /\ last.status = "ok"
  /\ last.wrote = {<<"account", last.ret.cashier_account_id>>}
  /\ last.ret.user_tag_id # NULL
  /\ last.ret.transport_account_id \in AccountRowIds(account)
  /\ BagIn("finanzorga", last.ret.privileges)

====
